---------------------------- MODULE Spec2Model ----------------------------
(***************************************************************************)
(* A model of src/lib/index.ts: the Dribbble REST client.                  *)
(*                                                                         *)
(*  - the casing pipeline (snakePipe / camelPipe) as operators over        *)
(*    JavaScript objects, with lodash's snakeCase / camelCase computed     *)
(*    from their word splitting;                                           *)
(*  - the client as a state machine: the token, the transport's default    *)
(*    Authorization header, the requests in flight, and one action per     *)
(*    public method.                                                       *)
(*                                                                         *)
(* Representation.  A JavaScript string used as a property key is a tuple  *)
(* of one-character strings (<<"a","B">> is "aB"), so that case conversion *)
(* is computed and not assumed.  A JavaScript value is a pair              *)
(* <<type, text>>.  An object is a sequence of <<key, value>> pairs with   *)
(* distinct keys, kept in the order Object.keys enumerates them.           *)
(***************************************************************************)
EXTENDS Integers, Sequences, FiniteSets, TLC

VARIABLES
    clientId,      \* this.clientId
    clientSecret,  \* this.clientSecret
    scope,         \* this.scope
    accessToken,   \* this.accessToken
    defaultAuth,   \* this.client.defaults.headers.common["Authorization"]
    inflight,      \* requests handed to the transport and not yet settled
    last,          \* the latest event a caller sees: what a call did, or
                   \* how a pending result settled
    installed,     \* history: the argument of the latest setAccessToken call
    pipeIn,        \* pipeline check: the input object
    pipeWire,      \* pipeline check: snakePipe(pipeIn)
    pipeApp,       \* pipeline check: camelPipe(pipeWire)
    pipeStage      \* pipeline check: "input", "wire" or "app"

clientVars == <<clientId, clientSecret, scope, accessToken, defaultAuth,
                inflight, last, installed>>
pipeVars == <<pipeIn, pipeWire, pipeApp, pipeStage>>
vars == <<clientId, clientSecret, scope, accessToken, defaultAuth,
          inflight, last, installed,
          pipeIn, pipeWire, pipeApp, pipeStage>>

---------------------------------------------------------------------------
(* Bounds of the model.                                                    *)

\* Requests that may be in flight together.
MaxInFlight == 1
\* Longest key of a one-entry object given to the pipeline.
MaxKeyLen == 3
\* Most entries of an object given to the pipeline.
MaxKeys == 2

---------------------------------------------------------------------------
(* Characters and lodash's case conversion.                                *)

LowerSeq == <<"a","b","c","d","e","f","g","h","i","j","k","l","m",
              "n","o","p","q","r","s","t","u","v","w","x","y","z">>
UpperSeq == <<"A","B","C","D","E","F","G","H","I","J","K","L","M",
              "N","O","P","Q","R","S","T","U","V","W","X","Y","Z">>
Digits == {"0","1","2","3","4","5","6","7","8","9"}
Lowers == {LowerSeq[i] : i \in DOMAIN LowerSeq}
Uppers == {UpperSeq[i] : i \in DOMAIN UpperSeq}

IsLower(c) == c \in Lowers
IsUpper(c) == c \in Uppers
IsDigit(c) == c \in Digits

LowerOf == [c \in Uppers |-> LowerSeq[CHOOSE i \in DOMAIN UpperSeq : UpperSeq[i] = c]]
UpperOf == [c \in Lowers |-> UpperSeq[CHOOSE i \in DOMAIN LowerSeq : LowerSeq[i] = c]]

\* String.prototype.toLowerCase / toUpperCase on one ASCII character.
ToLower(c) == IF IsUpper(c) THEN LowerOf[c] ELSE c
ToUpper(c) == IF IsLower(c) THEN UpperOf[c] ELSE c

LowerWord(w) == [i \in DOMAIN w |-> ToLower(w[i])]

\* lodash capitalize: upperFirst(toLower(word)).
Capitalize(w) ==
    [i \in DOMAIN w |-> IF i = 1 THEN ToUpper(ToLower(w[i])) ELSE ToLower(w[i])]

\* Length of the run of characters of one class that starts at s[i].
RECURSIVE LowerRun(_, _)
LowerRun(s, i) ==
    IF i <= Len(s) /\ IsLower(s[i]) THEN 1 + LowerRun(s, i + 1) ELSE 0

RECURSIVE UpperRun(_, _)
UpperRun(s, i) ==
    IF i <= Len(s) /\ IsUpper(s[i]) THEN 1 + UpperRun(s, i + 1) ELSE 0

RECURSIVE DigitRun(_, _)
DigitRun(s, i) ==
    IF i <= Len(s) /\ IsDigit(s[i]) THEN 1 + DigitRun(s, i + 1) ELSE 0

(***************************************************************************)
(* lodash words(), on ASCII letters, digits and separators.  Its pattern   *)
(* tries, at each position and in this order:                              *)
(*   1. Upper? Lower+ before a separator, an upper-case letter or the end  *)
(*   2. Upper+ before a separator, Upper Lower, or the end                 *)
(*   3. Upper? Lower+                                                      *)
(*   4. Upper+                                                             *)
(*   5. Digit+                                                             *)
(* and skips a character that starts none of them (every ASCII character   *)
(* that is no letter and no digit is a separator).  Hence: a lower-case    *)
(* run is a word; an upper-case run is a word, except that its last letter *)
(* starts the next word when a lower-case letter follows; a digit run is a *)
(* word.  (The ordinal alternatives, "1st", "2ND", need a digit followed   *)
(* by st/nd/rd/th and are not modelled: no key below holds one.)           *)
(***************************************************************************)
RECURSIVE wordsFrom(_, _)
wordsFrom(s, i) ==
    IF i > Len(s) THEN <<>>
    ELSE IF IsLower(s[i]) THEN
        LET n == LowerRun(s, i)
        IN  <<SubSeq(s, i, i + n - 1)>> \o wordsFrom(s, i + n)
    ELSE IF IsUpper(s[i]) THEN
        LET n == UpperRun(s, i)
            nxt == i + n
        IN  IF nxt <= Len(s) /\ IsLower(s[nxt]) THEN
                IF n = 1 THEN
                    LET m == LowerRun(s, nxt)
                    IN  <<SubSeq(s, i, i + m)>> \o wordsFrom(s, i + 1 + m)
                ELSE <<SubSeq(s, i, i + n - 2)>> \o wordsFrom(s, i + n - 1)
            ELSE <<SubSeq(s, i, i + n - 1)>> \o wordsFrom(s, i + n)
    ELSE IF IsDigit(s[i]) THEN
        LET n == DigitRun(s, i)
        IN  <<SubSeq(s, i, i + n - 1)>> \o wordsFrom(s, i + n)
    ELSE wordsFrom(s, i + 1)

words(s) == wordsFrom(s, 1)

RECURSIVE joinSnake(_)
joinSnake(ws) ==
    IF ws = <<>> THEN <<>>
    ELSE IF Len(ws) = 1 THEN LowerWord(ws[1])
    ELSE LowerWord(ws[1]) \o <<"_">> \o joinSnake(Tail(ws))

RECURSIVE joinCapitalized(_)
joinCapitalized(ws) ==
    IF ws = <<>> THEN <<>> ELSE Capitalize(ws[1]) \o joinCapitalized(Tail(ws))

\* lodash snakeCase: the words, lower-cased, joined by "_".
snakeCase(s) == joinSnake(words(s))

\* lodash camelCase: the first word lower-cased, the others capitalized.
camelCase(s) ==
    LET ws == words(s)
    IN  IF ws = <<>> THEN <<>> ELSE LowerWord(ws[1]) \o joinCapitalized(Tail(ws))

---------------------------------------------------------------------------
(* JavaScript values and objects.                                          *)

Str(s) == <<"str", s>>
Num(n) == <<"num", n>>
Bool(b) == <<"bool", b>>
Null == <<"null", "">>
Undefined == <<"undefined", "">>

\* The values JavaScript coerces to false.
Falsy == {Str(""), Num("0"), Num("NaN"), Bool("false"), Null, Undefined}

\* lodash pickBy's default predicate (identity): the value itself, coerced.
Truthy(v) == v \notin Falsy

ObjKeys(obj) == {obj[i][1] : i \in DOMAIN obj}
HasKey(obj, k) == \E i \in DOMAIN obj : obj[i][1] = k
Get(obj, k) == obj[CHOOSE i \in DOMAIN obj : obj[i][1] = k][2]

\* Decimal value of a digit string.
DigitVal(c) ==
    CASE c = "0" -> 0 [] c = "1" -> 1 [] c = "2" -> 2 [] c = "3" -> 3
      [] c = "4" -> 4 [] c = "5" -> 5 [] c = "6" -> 6 [] c = "7" -> 7
      [] c = "8" -> 8 [] c = "9" -> 9

RECURSIVE NumVal(_)
NumVal(k) ==
    IF k = <<>> THEN 0
    ELSE 10 * NumVal(SubSeq(k, 1, Len(k) - 1)) + DigitVal(k[Len(k)])

\* An integer index: Object.keys lists these first, in ascending order.  It
\* is a canonical decimal below 2^32 - 1; every digit string of up to nine
\* characters is below it, and no key of the model is longer.
IsArrayIndex(k) ==
    /\ Len(k) \in 1..9
    /\ \A i \in DOMAIN k : IsDigit(k[i])
    /\ (Len(k) > 1 => k[1] # "0")

\* A new property a is enumerated before an existing property b: integer
\* indices come first, in ascending order; the others keep insertion order.
AddedBefore(a, b) ==
    /\ IsArrayIndex(a)
    /\ (IsArrayIndex(b) => NumVal(a) < NumVal(b))

\* obj[k] = v: an existing property keeps its place; a new one goes where
\* enumeration puts it (integer indices ascending, then insertion order).
RECURSIVE Put(_, _, _)
Put(obj, k, v) ==
    IF obj = <<>> THEN <<<<k, v>>>>
    ELSE IF obj[1][1] = k THEN <<<<k, v>>>> \o Tail(obj)
    ELSE IF ~HasKey(obj, k) /\ AddedBefore(k, obj[1][1]) THEN <<<<k, v>>>> \o obj
    ELSE <<obj[1]>> \o Put(Tail(obj), k, v)

\* The object is in enumeration order and its keys are distinct.
WellFormed(obj) ==
    /\ \A i, j \in DOMAIN obj : obj[i][1] = obj[j][1] => i = j
    /\ \A i, j \in DOMAIN obj :
          i < j => ~AddedBefore(obj[j][1], obj[i][1])

---------------------------------------------------------------------------
(* The casing pipeline.  Its arguments and results are JavaScript values:  *)
(* Obj(o) for an object, a primitive, or the TypeError a call raised.      *)

Obj(o) == <<"object", o>>
TypeError == <<"throw", "TypeError">>
IsObj(v) == v[1] = "object"
IsNullish(v) == v[1] = "null" \/ v[1] = "undefined"

\* pickBy with the predicate lost: every property is kept.
pickByKeepsAll(data) ==
    IF IsObj(data) THEN data[2] ELSE <<>>

\* lodash pickBy(data): the properties whose value is truthy, in order;
\* {} for null or undefined.
pickBy(data) ==
    IF IsObj(data) THEN SelectSeq(data[2], LAMBDA e : Truthy(e[2])) ELSE <<>>

\* ret[snakeCase(key)] = data[key] for each key of pickBy(data), in order.
RECURSIVE snakeFold(_, _, _)
snakeFold(ret, keys, data) ==
    IF keys = <<>> THEN ret
    ELSE snakeFold(Put(ret, snakeCase(keys[1][1]), Get(data, keys[1][1])),
                   Tail(keys), data)

snakePipe(data) == Obj(snakeFold(<<>>, pickBy(data), data[2]))

\* camelPipe's loop with snakePipe's key conversion copied into it.
camelFoldSnakes(ret, keys, data) == snakeFold(ret, keys, data)

\* ret[camelCase(key)] = data[key] for each key of data, in order.
RECURSIVE camelFold(_, _, _)
camelFold(ret, keys, data) ==
    IF keys = <<>> THEN ret
    ELSE camelFold(Put(ret, camelCase(keys[1][1]), Get(data, keys[1][1])),
                   Tail(keys), data)

\* Object.keys(null) and Object.keys(undefined) raise a TypeError; a number,
\* a boolean and the empty string have no own enumerable keys.
camelPipe(data) ==
    IF IsObj(data) THEN Obj(camelFold(<<>>, data[2], data[2]))
    ELSE IF IsNullish(data) THEN TypeError
    ELSE Obj(<<>>)

---------------------------------------------------------------------------
(* Serialization.                                                          *)

\* querystring's stringifyPrimitive: a string as it is, a finite number and
\* a boolean printed, anything else empty.  (Percent-escaping is not
\* modelled: texts stand for themselves.)
stringifyPrimitive(v) ==
    IF v[1] = "str" \/ v[1] = "bool" THEN v[2]
    ELSE IF v[1] = "num" /\ v[2] # "NaN" THEN v[2]
    ELSE ""

\* querystring.stringify(data): key=value for each own key, in order; empty
\* for anything that is no object.
stringify(data) ==
    IF IsObj(data)
    THEN [i \in DOMAIN data[2] |->
            <<data[2][i][1], stringifyPrimitive(data[2][i][2])>>]
    ELSE <<>>

\* transformRequest: [snakePipe, data => stringify(data)], applied by the
\* transport to the request's data (the body), and to nothing else.
transformRequest(data) == stringify(snakePipe(data))

\* The transport's default serialization of config.params into the URL's
\* query: null and undefined values are skipped, keys are written as given.
serializeParams(params) ==
    IF IsObj(params)
    THEN LET kept == SelectSeq(params[2], LAMBDA e : ~IsNullish(e[2]))
         IN  [i \in DOMAIN kept |-> <<kept[i][1], stringifyPrimitive(kept[i][2])>>]
    ELSE <<>>

---------------------------------------------------------------------------
(* The client.                                                             *)

API_ENDPOINT == "https://api.dribbble.com/v2"
OAUTH_ENDPOINT == "https://dribbble.com/oauth"

\* The property names the client writes, as keys.
kClientId == <<"c","l","i","e","n","t","I","d">>
kClientSecret == <<"c","l","i","e","n","t","S","e","c","r","e","t">>
kScope == <<"s","c","o","p","e">>
kRedirectUri == <<"r","e","d","i","r","e","c","t","U","r","i">>
kState == <<"s","t","a","t","e">>
kCode == <<"c","o","d","e">>
kFile == <<"f","i","l","e">>
kName == <<"n","a","m","e">>
kDescription == <<"d","e","s","c","r","i","p","t","i","o","n">>
kPage == <<"p","a","g","e">>
kPerPage == <<"p","e","r","P","a","g","e">>

\* Inputs of the public methods.
ClientIds == {"", "cid"}
Scopes == {"", "pulic"}
Tokens == {"", "t1", "t2"}
Ids == {"7"}
Files == {<<"buffer", "png">>}
Pagers == {Obj(<< <<kPage, Num("2")>>, <<kPerPage, Num("10")>> >>)}
ShotData ==
    {Obj(<< <<<<"i","m","a","g","e","U","r","l">>, Str("u")>>,
            <<<<"t","i","t","l","e">>, Str("")>> >>)}
OptionalScopes == {Undefined, Str(""), Str("upload")}
OptionalUris == {Undefined, Str("https://app/cb")}
OptionalStates == {Undefined, Str("xyz")}
Codes == {"c0"}

\* What the remote service may answer: a body, or a failure of the call.
ResponseBodies ==
    {Obj(<< <<<<"a","c","c","e","s","s","_","t","o","k","e","n">>, Str("t1")>>,
            <<<<"t","o","k","e","n","_","t","y","p","e">>, Str("bearer")>> >>),
     Null}
TransportError == <<"error", "transport">>
Responses ==
    {<<"ok", b>> : b \in ResponseBodies} \cup {<<"fail", TransportError>>}

NoHeader == <<"absent", "">>
\* `Bearer ${accessToken}`
Bearer(t) == <<"Bearer ", t>>

NoWire == [auth |-> NoHeader, body |-> <<>>, query |-> <<>>]
FreeSlot ==
    [phase |-> "free", method |-> "", verb |-> "", base |-> "", path |-> <<>>,
     data |-> Undefined, params |-> Undefined, auth |-> NoHeader,
     asOf |-> <<"none", "">>, wire |-> NoWire]

Slots == 1..MaxInFlight

\* new DribbbleError("Need authorization.", 403)
Unauthorized == <<"DribbbleError", "403">>

NoResponse == <<"none", Undefined>>
Event(kind, m, args, outcome, value, response) ==
    [kind |-> kind, method |-> m, args |-> args, outcome |-> outcome,
     value |-> value, response |-> response]

Constructed(id, secret, sc) ==
    /\ clientId = id
    /\ clientSecret = secret
    /\ scope = sc
    /\ accessToken = ""
    /\ defaultAuth = NoHeader
    /\ inflight = [sl \in Slots |-> FreeSlot]
    /\ last = Event("call", "constructor", <<>>, "returned", Undefined, NoResponse)
    /\ installed = <<"none", "">>

PipeIdle ==
    /\ pipeIn = Obj(<<>>)
    /\ pipeWire = Obj(<<>>)
    /\ pipeApp = Obj(<<>>)
    /\ pipeStage = "idle"

Init ==
    /\ \E id \in ClientIds, sc \in Scopes : Constructed(id, "sec", sc)
    /\ PipeIdle

\* The guard with its test lost: it always passes.
AuthorizedAlways == TRUE

\* enforceAuthorized passes: this.accessToken is truthy.
Authorized == accessToken # ""

\* enforceAuthorized throws: the method ends there.
Throws(m, args) ==
    /\ last' = Event("call", m, args, "threw", Unauthorized, NoResponse)
    /\ UNCHANGED <<clientId, clientSecret, scope, accessToken, defaultAuth,
                   inflight, installed>>
    /\ UNCHANGED pipeVars

\* The headers of a request: the transport merges its defaults into the
\* request's config when the request is made.
mergedAuth == defaultAuth

\* this.client.get / post / delete: the request's config is made, with the
\* default headers of this moment, and handed to the transport, which
\* dispatches it later.
Request(m, args, verb, base, path, data, params) ==
    /\ \E sl \in Slots :
          /\ inflight[sl].phase = "free"
          /\ \A lower \in Slots : lower < sl => inflight[lower].phase # "free"
          /\ inflight' = [inflight EXCEPT ![sl] =
                [phase |-> "issued", method |-> m, verb |-> verb,
                 base |-> base, path |-> path, data |-> data,
                 params |-> params, auth |-> mergedAuth,
                 asOf |-> installed, wire |-> NoWire]]
          /\ last' = Event("call", m, args, "pending", <<"request", sl>>,
                          NoResponse)
    /\ UNCHANGED <<clientId, clientSecret, scope, accessToken, defaultAuth,
                   installed>>
    /\ UNCHANGED pipeVars

\* A method that calls enforceAuthorized first.
Guarded(m, args, verb, path, data, params) ==
    IF Authorized
    THEN Request(m, args, verb, API_ENDPOINT, path, data, params)
    ELSE Throws(m, args)

\* getAuthorizationUrl with the fallback to this.scope left out.
authorizationUrlOwnScopeLost(sc, redirectUri, state) ==
    <<"url", [protocol |-> "https:", host |-> "dribbble.com",
              pathname |-> "/oauth/authorize",
              search |-> stringify(snakePipe(Obj(
                  << <<kClientId, Str(clientId)>>, <<kScope, sc>>,
                     <<kRedirectUri, redirectUri>>, <<kState, state>> >>)))]>>

\* The string getAuthorizationUrl returns: format() of the parsed OAuth URI
\* with pathname /oauth/authorize and the snakePipe'd query.
authorizationUrl(sc, redirectUri, state) ==
    LET query == snakePipe(Obj(<< <<kClientId, Str(clientId)>>,
                                  <<kScope, IF Truthy(sc) THEN sc ELSE Str(scope)>>,
                                  <<kRedirectUri, redirectUri>>,
                                  <<kState, state>> >>))
    IN  <<"url", [protocol |-> "https:", host |-> "dribbble.com",
                  pathname |-> "/oauth/authorize",
                  search |-> stringify(query)]>>

getAuthorizationUrl(sc, redirectUri, state) ==
    /\ last' = Event("call", "getAuthorizationUrl", <<sc, redirectUri, state>>,
                      "returned", authorizationUrl(sc, redirectUri, state),
                      NoResponse)
    /\ UNCHANGED <<clientId, clientSecret, scope, accessToken, defaultAuth,
                   inflight, installed>>
    /\ UNCHANGED pipeVars

exchangeAuthorizationCode(code, redirectUri) ==
    Request("exchangeAuthorizationCode", <<Str(code), redirectUri>>, "post",
            OAUTH_ENDPOINT, <<"/token">>,
            Obj(<< <<kClientId, Str(clientId)>>,
                   <<kClientSecret, Str(clientSecret)>>,
                   <<kCode, Str(code)>>,
                   <<kRedirectUri, redirectUri>> >>),
            Undefined)

\* setAccessToken that stores the token and leaves the header as it was.
setAccessTokenHeaderLost(token) ==
    /\ accessToken' = token
    /\ installed' = <<"set", token>>
    /\ last' = Event("call", "setAccessToken", <<Str(token)>>, "returned",
                      Undefined, NoResponse)
    /\ UNCHANGED <<clientId, clientSecret, scope, defaultAuth, inflight>>
    /\ UNCHANGED pipeVars

setAccessToken(token) ==
    /\ accessToken' = token
    /\ defaultAuth' = Bearer(token)
    /\ installed' = <<"set", token>>
    /\ last' = Event("call", "setAccessToken", <<Str(token)>>, "returned",
                      Undefined, NoResponse)
    /\ UNCHANGED <<clientId, clientSecret, scope, inflight>>
    /\ UNCHANGED pipeVars

createAttachment(id, file) ==
    Guarded("createAttachment", <<Str(id), file>>, "post",
            <<"/shots/", id, "/attachments">>,
            Obj(<< <<kFile, file>> >>), Undefined)

deleteAttachment(id, attachmentId) ==
    Guarded("deleteAttachment", <<Str(id), Str(attachmentId)>>, "delete",
            <<"/shots/", id, "/attachments/", attachmentId>>,
            Undefined, Undefined)

getLikes(params) ==
    Guarded("getLikes", <<params>>, "get", <<"/user/likes">>, Undefined, params)

hasLiked(id) ==
    Guarded("hasLiked", <<Str(id)>>, "get", <<"/shots/", id, "/like">>,
            Undefined, Undefined)

likeShot(id) ==
    Guarded("likeShot", <<Str(id)>>, "post", <<"/shots/", id, "/like">>,
            Undefined, Undefined)

\* unlikeShot guarded as likeShot is.
unlikeShotGuarded(id) ==
    Guarded("unlikeShot", <<Str(id)>>, "delete", <<"/shots/", id, "/like">>,
            Undefined, Undefined)

unlikeShot(id) ==
    Request("unlikeShot", <<Str(id)>>, "delete", API_ENDPOINT,
            <<"/shots/", id, "/like">>, Undefined, Undefined)

getUserProject(params) ==
    Guarded("getUserProject", <<params>>, "get", <<"/user/project">>,
            Undefined, params)

createProject(name, description) ==
    Guarded("createProject", <<Str(name), Str(description)>>, "post",
            <<"/projects">>,
            Obj(<< <<kName, Str(name)>>, <<kDescription, Str(description)>> >>),
            Undefined)

updateProject(id, data) ==
    Guarded("updateProject", <<Str(id), data>>, "post", <<"/projects/", id>>,
            data, Undefined)

deleteProject(id) ==
    Guarded("deleteProject", <<Str(id)>>, "delete", <<"/projects/", id>>,
            Undefined, Undefined)

getUserShots(params) ==
    Guarded("getUserShots", <<params>>, "get", <<"/user/shots">>,
            Undefined, params)

getPopularShots(params) ==
    Request("getPopularShots", <<params>>, "get", API_ENDPOINT,
            <<"/popular_shots">>, Undefined, params)

getShot(id) ==
    Request("getShot", <<Str(id)>>, "get", API_ENDPOINT, <<"/shots/", id>>,
            Undefined, Undefined)

createShot(data) ==
    Guarded("createShot", <<data>>, "post", <<"/shots">>, data, Undefined)

updateShot(id, data) ==
    Guarded("updateShot", <<Str(id), data>>, "post", <<"/shots/", id>>,
            data, Undefined)

deleteShot(id) ==
    Guarded("deleteShot", <<Str(id)>>, "delete", <<"/shots/", id>>,
            Undefined, Undefined)

getProfile ==
    Guarded("getProfile", <<>>, "get", <<"/user">>, Undefined, Undefined)

\* The headers read from the transport's defaults as the request goes out.
requestAuthLive(req) == defaultAuth

\* The headers a request goes out with: those of its own config.
requestAuth(req) == req.auth

\* The transport dispatches a request it was handed: the body is the
\* transformed data, the query the serialized params.
Dispatch(sl) ==
    /\ inflight[sl].phase = "issued"
    /\ inflight' = [inflight EXCEPT ![sl] =
          [@ EXCEPT !.phase = "sent",
                    !.wire = [auth |-> requestAuth(inflight[sl]),
                              body |-> transformRequest(inflight[sl].data),
                              query |-> serializeParams(inflight[sl].params)]]]
    /\ UNCHANGED <<clientId, clientSecret, scope, accessToken, defaultAuth,
                   last, installed>>
    /\ UNCHANGED pipeVars

\* The response interceptor handing on response.data as it came.
interceptRaw(response) ==
    IF response[1] = "ok" THEN <<"resolved", response[2]>>
    ELSE <<"rejected", response[2]>>

\* The response interceptors: camelPipe(response.data) on a response (a
\* TypeError it raises rejects the result), Promise.reject(error) on a failure.
intercept(response) ==
    IF response[1] = "ok"
    THEN LET ret == camelPipe(response[2])
         IN  IF ret = TypeError THEN <<"rejected", ret>> ELSE <<"resolved", ret>>
    ELSE <<"rejected", response[2]>>

\* Settle that installs the token a token exchange answered with.
SettleInstallsToken(sl, response) ==
    /\ inflight[sl].phase = "sent"
    /\ inflight' = [inflight EXCEPT ![sl] = FreeSlot]
    /\ last' = Event("settle", inflight[sl].method, <<>>,
                      intercept(response)[1], intercept(response)[2], response)
    /\ IF inflight[sl].method = "exchangeAuthorizationCode"
           /\ intercept(response)[1] = "resolved"
       THEN /\ accessToken' = "t1"
            /\ defaultAuth' = Bearer("t1")
       ELSE UNCHANGED <<accessToken, defaultAuth>>
    /\ UNCHANGED <<clientId, clientSecret, scope, installed>>
    /\ UNCHANGED pipeVars

\* The remote service answers a dispatched request, or the call fails; the
\* pending result of the method settles.
Settle(sl, response) ==
    /\ inflight[sl].phase = "sent"
    /\ inflight' = [inflight EXCEPT ![sl] = FreeSlot]
    /\ last' = Event("settle", inflight[sl].method, <<>>,
                      intercept(response)[1], intercept(response)[2], response)
    /\ UNCHANGED <<clientId, clientSecret, scope, accessToken, defaultAuth,
                   installed>>
    /\ UNCHANGED pipeVars

Next ==
    \/ \E sc \in OptionalScopes, uri \in OptionalUris, st \in OptionalStates :
          getAuthorizationUrl(sc, uri, st)
    \/ \E code \in Codes, uri \in OptionalUris :
          exchangeAuthorizationCode(code, uri)
    \/ \E token \in Tokens : setAccessToken(token)
    \/ \E id \in Ids, file \in Files : createAttachment(id, file)
    \/ \E id \in Ids, attachmentId \in Ids : deleteAttachment(id, attachmentId)
    \/ \E params \in Pagers : getLikes(params)
    \/ \E id \in Ids : hasLiked(id)
    \/ \E id \in Ids : likeShot(id)
    \/ \E id \in Ids : unlikeShot(id)
    \/ \E params \in Pagers : getUserProject(params)
    \/ \E name \in {"n"}, description \in {""} : createProject(name, description)
    \/ \E id \in Ids, data \in ShotData : updateProject(id, data)
    \/ \E id \in Ids : deleteProject(id)
    \/ \E params \in Pagers : getUserShots(params)
    \/ \E params \in Pagers : getPopularShots(params)
    \/ \E id \in Ids : getShot(id)
    \/ \E data \in ShotData : createShot(data)
    \/ \E id \in Ids, data \in ShotData : updateShot(id, data)
    \/ \E id \in Ids : deleteShot(id)
    \/ getProfile
    \/ \E sl \in Slots : Dispatch(sl)
    \/ \E sl \in Slots, response \in Responses : Settle(sl, response)

Spec == Init /\ [][Next]_vars

---------------------------------------------------------------------------
(* The pipeline on its own: an input object is drawn, snakePipe makes the  *)
(* wire object of it, and camelPipe makes the application object of that.  *)

PipeAlphabet == {"a", "B", "_", "1"}

\* Every key of up to n characters of the alphabet.
RECURSIVE KeysUpTo(_)
KeysUpTo(n) ==
    IF n = 0 THEN {<<>>}
    ELSE LET shorter == KeysUpTo(n - 1)
         IN  shorter \cup {Append(k, c) : k \in shorter, c \in PipeAlphabet}

\* Values: two truthy ones and the falsy ones.
PipeValues ==
    {Str("x"), Str("y"), Str(""), Num("0"), Bool("false"), Null, Undefined}

\* Keys of the objects with several entries: pairs and triples among them
\* share a snake_case or a camelCase form, and two are integer indices.
SharedKeys ==
    { <<"a", "B">>, <<"a", "_", "b">>, <<"a", "b">>, <<"1">>, <<"_", "1">>,
      <<"a", "1", "1">>, <<"a", "1", "_", "1">>, <<"a", "_", "1", "_", "1">> }
SharedValues == {Str("x"), Str("y"), Num("0"), Undefined}

OneEntryObjects ==
    {<<<<k, v>>>> : k \in KeysUpTo(MaxKeyLen), v \in PipeValues}

ManyEntryObjects ==
    UNION { {o \in [1..n -> SharedKeys \X SharedValues] : WellFormed(o)} :
            n \in 0..MaxKeys }

PipeInputs == {Obj(o) : o \in OneEntryObjects \cup ManyEntryObjects}

PipeInit ==
    /\ Constructed("cid", "sec", "pulic")
    /\ pipeIn \in PipeInputs
    /\ pipeWire = Obj(<<>>)
    /\ pipeApp = Obj(<<>>)
    /\ pipeStage = "input"

\* toWireFormat: the outbound transform of the input.
ToWire ==
    /\ pipeStage = "input"
    /\ pipeWire' = snakePipe(pipeIn)
    /\ pipeStage' = "wire"
    /\ UNCHANGED <<pipeIn, pipeApp>>
    /\ UNCHANGED clientVars

\* fromWireFormat: the inbound transform of what toWireFormat produced.
FromWire ==
    /\ pipeStage = "wire"
    /\ pipeApp' = camelPipe(pipeWire)
    /\ pipeStage' = "app"
    /\ UNCHANGED <<pipeIn, pipeWire>>
    /\ UNCHANGED clientVars

PipeNext == ToWire \/ FromWire

PipeSpec == PipeInit /\ [][PipeNext]_vars

---------------------------------------------------------------------------
(* Claims about the pipeline (under PipeSpec).                             *)

In == pipeIn[2]
Wire == pipeWire[2]
App == pipeApp[2]

TruthyAt(o) == {i \in DOMAIN o : Truthy(o[i][2])}
FalsyAt(o) == DOMAIN o \ TruthyAt(o)
Last(S) == CHOOSE i \in S : \A j \in S : j <= i
DistinctKeys(o) == \A i, j \in DOMAIN o : o[i][1] = o[j][1] => i = j

\* C5 as claimed: the output's keys are the snake_case forms of the
\* truthy-valued input keys, each such key's value is found under its
\* snake_case form, and every falsy-valued key is absent from the output.
C5_AsClaimed ==
    pipeStage \in {"wire", "app"} =>
        /\ IsObj(pipeWire)
        /\ ObjKeys(Wire) = {snakeCase(In[i][1]) : i \in TruthyAt(In)}
        /\ \A i \in TruthyAt(In) :
              Get(Wire, snakeCase(In[i][1])) = In[i][2]
        /\ \A i \in FalsyAt(In) : ~HasKey(Wire, In[i][1])
        /\ (In = <<>> => Wire = <<>>)

\* C5, amended: the output is an object with distinct keys, exactly the
\* snake_case forms of the truthy-valued input keys; each output key carries
\* the value of the last truthy-valued input key, in enumeration order, that
\* has this snake_case form; a falsy-valued key is in the output only when a
\* truthy-valued input key has it as its snake_case form; {} gives {}.
C5_SnakePipe ==
    pipeStage \in {"wire", "app"} =>
        /\ IsObj(pipeWire)
        /\ DistinctKeys(Wire)
        /\ ObjKeys(Wire) = {snakeCase(In[i][1]) : i \in TruthyAt(In)}
        /\ \A j \in DOMAIN Wire :
              LET from == {i \in TruthyAt(In) : snakeCase(In[i][1]) = Wire[j][1]}
              IN  Wire[j][2] = In[Last(from)][2]
        /\ \A i \in FalsyAt(In) :
              HasKey(Wire, In[i][1]) =>
                  \E t \in TruthyAt(In) : snakeCase(In[t][1]) = In[i][1]
        /\ (In = <<>> => Wire = <<>>)

\* C5's case: a falsy-valued key and a truthy-valued camelCase key went in,
\* and the one renamed entry came out.
C5_Witness ==
    /\ pipeStage = "wire"
    /\ FalsyAt(In) # {}
    /\ \E t \in TruthyAt(In) : snakeCase(In[t][1]) # In[t][1]
    /\ Len(Wire) = 1

AllTruthy(o) == FalsyAt(o) = {}
CamelKeys(o) == {camelCase(o[i][1]) : i \in DOMAIN o}

\* C6 as claimed: for an input of truthy values, the round trip's keys are
\* the camelCase forms of the input's keys and the value of every input key
\* is found under its camelCase form.
C6_AsClaimed ==
    (pipeStage = "app" /\ AllTruthy(In)) =>
        /\ IsObj(pipeApp)
        /\ ObjKeys(App) = CamelKeys(In)
        /\ \A i \in DOMAIN In : Get(App, camelCase(In[i][1])) = In[i][2]

\* C6, amended: for an input of truthy values, the round trip's keys are
\* the camelCase forms of the input's keys; the value under each resulting
\* key is the value the input held under a key with that camelCase form; and
\* the value of an input key is found under its camelCase form whenever no
\* other input key has the same camelCase form.
C6_RoundTrip ==
    (pipeStage = "app" /\ AllTruthy(In)) =>
        /\ IsObj(pipeApp)
        /\ DistinctKeys(App)
        /\ ObjKeys(App) = CamelKeys(In)
        /\ \A j \in DOMAIN App :
              \E i \in DOMAIN In :
                  camelCase(In[i][1]) = App[j][1] /\ App[j][2] = In[i][2]
        /\ \A i \in DOMAIN In :
              (\A i2 \in DOMAIN In :
                  camelCase(In[i2][1]) = camelCase(In[i][1]) => i2 = i)
              => Get(App, camelCase(In[i][1])) = In[i][2]

\* C6's case: two truthy entries went through both transforms, stayed two,
\* and a key changed its spelling on the way.
C6_Witness ==
    /\ pipeStage = "app"
    /\ AllTruthy(In)
    /\ Len(In) = 2
    /\ Len(App) = 2
    /\ ObjKeys(App) # ObjKeys(In)

---------------------------------------------------------------------------
(* Claims about the client (under Spec).                                   *)

ProtectedMethods ==
    {"createAttachment", "deleteAttachment", "getLikes", "hasLiked", "likeShot",
     "getUserProject", "createProject", "updateProject", "deleteProject",
     "getUserShots", "createShot", "updateShot", "deleteShot", "getProfile"}
UnprotectedMethods == {"getPopularShots", "getShot", "unlikeShot"}
EndpointMethods == ProtectedMethods \cup UnprotectedMethods
PagerMethods == {"getLikes", "getUserProject", "getUserShots", "getPopularShots"}

\* This step is a call of a public method (a call that changes nothing, as a
\* second identical failing call does, is no step at all).
CallStep == last'.kind = "call" /\ last' # last

\* The slots in which this step hands a request to the transport.
Handed == {sl \in Slots : inflight[sl].phase = "free" /\ inflight'[sl].phase = "issued"}

\* C1: a protected method called while the stored token is empty throws the
\* Unauthorized error with code 403, and hands nothing to the transport.
C1_GuardBlocks ==
    [][ (CallStep /\ last'.method \in ProtectedMethods /\ accessToken = "") =>
            /\ last'.outcome = "threw"
            /\ last'.value = <<"DribbbleError", "403">>
            /\ inflight' = inflight ]_vars

\* C1's case: the token is empty although setAccessToken("") was called, a
\* request of an unprotected method is with the transport, and a protected
\* method has just thrown.
C1_Witness ==
    /\ accessToken = ""
    /\ installed = <<"set", "">>
    /\ last.kind = "call"
    /\ last.method \in ProtectedMethods
    /\ last.outcome = "threw"
    /\ \E sl \in Slots : inflight[sl].phase # "free"

\* C2: once setAccessToken(t) was called, the stored token is the latest t
\* and the default header is Bearer t (so a second call with t changes
\* nothing and a call with t2 overwrites), and every request made since,
\* token exchange included, goes out with Authorization: Bearer t.
C2_BearerHeader ==
    /\ installed[1] = "set" =>
          /\ accessToken = installed[2]
          /\ defaultAuth = <<"Bearer ", installed[2]>>
    /\ \A sl \in Slots :
          (inflight[sl].phase # "free" /\ inflight[sl].asOf = installed
              /\ installed[1] = "set") =>
              /\ inflight[sl].auth = <<"Bearer ", installed[2]>>
              /\ inflight[sl].phase = "sent" =>
                    inflight[sl].wire.auth = <<"Bearer ", installed[2]>>

\* C2's case: a token exchange made after setAccessToken("t2") is on the wire.
C2_Witness ==
    /\ installed = <<"set", "t2">>
    /\ \E sl \in Slots :
          /\ inflight[sl].phase = "sent"
          /\ inflight[sl].method = "exchangeAuthorizationCode"
          /\ inflight[sl].asOf = installed
          /\ inflight[sl].wire.auth = <<"Bearer ", "t2">>

\* The keys of obj, in camelCase, with obj's values: what camel-casing a
\* payload means, said without the pipeline.
CamelCased(value, body) ==
    /\ IsObj(value)
    /\ DistinctKeys(value[2])
    /\ ObjKeys(value[2]) = CamelKeys(body[2])
    /\ \A j \in DOMAIN value[2] :
          \E i \in DOMAIN body[2] :
              /\ camelCase(body[2][i][1]) = value[2][j][1]
              /\ body[2][i][2] = value[2][j][2]

Resolved(e) ==
    /\ e.outcome = "resolved"
    /\ e.response[1] = "ok"
    /\ IsObj(e.response[2])
    /\ CamelCased(e.value, e.response[2])

RejectedUnchanged(e) ==
    /\ e.outcome = "rejected"
    /\ e.response[1] = "fail"
    /\ e.value = e.response[2]

\* C3 as claimed: a call of an endpoint method returns a pending result, and
\* a pending result resolves with the camel-cased payload or rejects with the
\* 403 error or with the transport's error, unchanged.
C3_AsClaimed ==
    /\ (last.kind = "call" /\ last.method \in EndpointMethods) =>
          last.outcome = "pending"
    /\ last.kind = "settle" =>
          \/ Resolved(last)
          \/ RejectedUnchanged(last)
          \/ last.outcome = "rejected" /\ last.value = <<"DribbbleError", "403">>

\* C3, amended: a call of an endpoint method either throws the 403 error
\* itself (a protected method, the token empty) or returns a pending result;
\* a pending result resolves with the camel-cased payload, or rejects with the
\* transport's error unchanged, or, when the response's body is null, rejects
\* with the TypeError the response interceptor raised.  Nothing else happens.
C3_Outcomes ==
    /\ (last.kind = "call" /\ last.method \in EndpointMethods) =>
          \/ last.outcome = "pending"
          \/ /\ last.outcome = "threw"
             /\ last.value = <<"DribbbleError", "403">>
             /\ last.method \in ProtectedMethods
             /\ accessToken = ""
    /\ last.kind = "settle" =>
          \/ Resolved(last)
          \/ RejectedUnchanged(last)
          \/ /\ last.outcome = "rejected"
             /\ last.value = <<"throw", "TypeError">>
             /\ last.response[1] = "ok"
             /\ IsNullish(last.response[2])

\* C3's case: the pending result of an endpoint method has resolved with a
\* payload whose keys were renamed.
C3_Witness ==
    /\ last.kind = "settle"
    /\ last.method \in EndpointMethods
    /\ last.outcome = "resolved"
    /\ last.value # last.response[2]

\* C4: a call of getPopularShots, getShot or unlikeShot throws nothing and
\* hands exactly one request to the transport, whatever the token.
C4_Unprotected ==
    [][ (CallStep /\ last'.method \in UnprotectedMethods) =>
            /\ last'.outcome = "pending"
            /\ Cardinality(Handed) = 1
            /\ \A sl \in Slots \ Handed : inflight'[sl] = inflight[sl] ]_vars

\* C4's case: no token was ever set, and unlikeShot's request is with the
\* transport, without an Authorization header.
C4_Witness ==
    /\ installed[1] = "none"
    /\ accessToken = ""
    /\ last.kind = "call"
    /\ last.method = "unlikeShot"
    /\ last.outcome = "pending"
    /\ \E sl \in Slots :
          /\ inflight[sl].method = "unlikeShot"
          /\ inflight[sl].auth = <<"absent", "">>

\* The names the query of a URL goes out under, letter by letter.
qClientId == <<"c","l","i","e","n","t","_","i","d">>
qRedirectUri == <<"r","e","d","i","r","e","c","t","_","u","r","i">>
qPerPage == <<"p","e","r","_","p","a","g","e">>
qScope == <<"s","c","o","p","e">>
qState == <<"s","t","a","t","e">>
qPage == <<"p","a","g","e">>

QueryHas(q, k, text) == \E i \in DOMAIN q : q[i] = <<k, text>>
QueryLacks(q, k) == \A i \in DOMAIN q : q[i][1] # k
\* The query holds k with this text when the text is given, and no k otherwise.
QueryHasIff(q, k, given, text) ==
    IF given THEN QueryHas(q, k, text) ELSE QueryLacks(q, k)

UrlStep == CallStep /\ last'.method = "getAuthorizationUrl"

NoEffect ==
    UNCHANGED <<clientId, clientSecret, scope, accessToken, defaultAuth,
                inflight, installed>>

OnAuthorizePath(u) ==
    /\ u[1] = "url"
    /\ u[2].protocol = "https:"
    /\ u[2].host = "dribbble.com"
    /\ u[2].pathname = "/oauth/authorize"

\* C7 as claimed: getAuthorizationUrl changes nothing and hands nothing to the
\* transport; the URL is on the OAuth base with path /oauth/authorize; its
\* query has client_id = the configured id, scope = the argument when one is
\* given and the configured scope otherwise, and redirect_uri and state
\* exactly when the argument is given and truthy.
C7_AsClaimed ==
    [][ UrlStep =>
            LET sc == last'.args[1]
                uri == last'.args[2]
                st == last'.args[3]
                q == last'.value[2].search
            IN  /\ NoEffect
                /\ OnAuthorizePath(last'.value)
                /\ QueryHas(q, qClientId, clientId)
                /\ QueryHas(q, qScope, IF sc # Undefined THEN sc[2] ELSE scope)
                /\ QueryHasIff(q, qRedirectUri, Truthy(uri), uri[2])
                /\ QueryHasIff(q, qState, Truthy(st), st[2]) ]_vars

\* C7, amended: as claimed, except that the scope is the argument when it is
\* given and truthy and the configured scope otherwise, and that client_id
\* and scope are in the query only when their value is not the empty string.
\* The query holds nothing else.
C7_AuthorizationUrl ==
    [][ UrlStep =>
            LET sc == last'.args[1]
                uri == last'.args[2]
                st == last'.args[3]
                q == last'.value[2].search
                effective == IF Truthy(sc) THEN sc[2] ELSE scope
            IN  /\ NoEffect
                /\ OnAuthorizePath(last'.value)
                /\ QueryHasIff(q, qClientId, clientId # "", clientId)
                /\ QueryHasIff(q, qScope, effective # "", effective)
                /\ QueryHasIff(q, qRedirectUri, Truthy(uri), uri[2])
                /\ QueryHasIff(q, qState, Truthy(st), st[2])
                /\ \A i \in DOMAIN q :
                      q[i][1] \in {qClientId, qScope, qRedirectUri, qState}
                /\ \A i, j \in DOMAIN q : q[i][1] = q[j][1] => i = j ]_vars

\* C7's case: the URL was built without arguments by a client with an id and
\* a scope, while a request was with the transport.
C7_Witness ==
    /\ last.kind = "call"
    /\ last.method = "getAuthorizationUrl"
    /\ last.args = <<Undefined, Undefined, Undefined>>
    /\ clientId = "cid"
    /\ scope = "pulic"
    /\ Len(last.value[2].search) = 2
    /\ \E sl \in Slots : inflight[sl].phase # "free"

\* C8 as claimed: the query of a GET made with a Pager goes through the
\* outbound transform: perPage is sent as per_page, page as page.
C8_AsClaimed ==
    \A sl \in Slots :
        (inflight[sl].phase = "sent" /\ inflight[sl].method \in PagerMethods) =>
            LET pager == inflight[sl].params[2]
                q == inflight[sl].wire.query
            IN  /\ QueryHas(q, qPerPage, stringifyPrimitive(Get(pager, kPerPage)))
                /\ QueryHas(q, qPage, stringifyPrimitive(Get(pager, kPage)))

\* C9: the stored token and the default header change only in a step that is
\* a call of setAccessToken, to its argument; the configuration never
\* changes; and as long as setAccessToken was never called, whatever was
\* exchanged, the token is empty, no header is set and a protected method
\* throws.
C9_TokenFrame ==
    /\ [][ /\ (accessToken' # accessToken \/ defaultAuth' # defaultAuth) =>
                /\ CallStep
                /\ last'.method = "setAccessToken"
                /\ last'.args = <<Str(accessToken')>>
           /\ clientId' = clientId
           /\ clientSecret' = clientSecret
           /\ scope' = scope ]_vars
    /\ [](installed[1] = "none" =>
            /\ accessToken = ""
            /\ defaultAuth = <<"absent", "">>
            /\ (last.kind = "call" /\ last.method \in ProtectedMethods) =>
                  last.outcome = "threw")

\* C9's case: a token exchange has resolved with a token in its payload, and
\* the client still has none.
C9_Witness ==
    /\ last.kind = "settle"
    /\ last.method = "exchangeAuthorizationCode"
    /\ last.outcome = "resolved"
    /\ installed[1] = "none"
    /\ accessToken = ""

\* The header installed when h was the latest setAccessToken call.
HeaderOf(h) == IF h[1] = "set" THEN <<"Bearer ", h[2]>> ELSE <<"absent", "">>

\* C10: a request with the transport holds, and goes out with, the header
\* that was installed when it was made, whatever was installed since.
C10_HeaderAtIssue ==
    \A sl \in Slots :
        inflight[sl].phase # "free" =>
            /\ inflight[sl].auth = HeaderOf(inflight[sl].asOf)
            /\ inflight[sl].phase = "sent" =>
                  inflight[sl].wire.auth = HeaderOf(inflight[sl].asOf)

\* C10's case: a request made under t1 is on the wire with Bearer t1 while
\* the client's token is t2 already.
C10_Witness ==
    /\ installed = <<"set", "t2">>
    /\ defaultAuth = <<"Bearer ", "t2">>
    /\ \E sl \in Slots :
          /\ inflight[sl].phase = "sent"
          /\ inflight[sl].method = "likeShot"
          /\ inflight[sl].asOf = <<"set", "t1">>
          /\ inflight[sl].wire.auth = <<"Bearer ", "t1">>

===========================================================================
